---- MODULE Spec2Model ----
(***************************************************************************)
(* Retry / fallback state machines of the two video components:            *)
(*   components/SocialMediaPlayer.tsx    (specifications Spec, FairSpec)   *)
(*   components/UniversalVideoPlayer.tsx (specification UniversalSpec)     *)
(*                                                                         *)
(* A React component is modelled by its useState cells and useRef cells.   *)
(* One action is one handler (or timer callback) together with the render  *)
(* that its state updates cause.  The passive effects queued by a render   *)
(* are a step of their own (pendingEffect); React flushes them before the  *)
(* next update is processed, so no handler is enabled while one is queued. *)
(***************************************************************************)
EXTENDS Integers, Sequences, FiniteSets, TLC

\* ---------------------------------------------------------------- bounds
MaxStrategies == 3      \* longest embedStrategies list explored
MaxManualRetries == 2   \* largest maxRetries prop explored (SocialMediaPlayer)
MaxTimers == 2          \* timer handles available to setTimeout
MaxPlayerRetries == 2   \* largest maxRetries prop explored (UniversalVideoPlayer)
MaxAutoRetries == 3     \* automatic retries followed per behaviour
MaxPendingRetries == 2  \* delayed retry callbacks pending at once

\* ------------------------------------------------------------- constants
Null == -1              \* a null embed URL / a null timer handle is 0
NoError == "null"       \* error === null

VARIABLES
  \* SocialMediaPlayer: props and the result of getSocialMediaConfig(url)
  hasConfig,            \* config is not null/undefined
  embedStrategies,      \* config.embedStrategies: <<b_0, ..>>, b_i = strategy i yields a URL
  autoRetry,
  maxRetries,
  \* SocialMediaPlayer: state cells and refs
  isLoading,
  error,
  currentStrategyIndex,
  retryCount,
  embedUrl,             \* Null, or i: the URL produced by strategy i
  retryTimeoutRef,      \* 0 (null) or the handle of the last timer set
  \* SocialMediaPlayer: environment
  timers,               \* handles of the setTimeout callbacks still pending
  phase,                \* "mounted", "unmounted", "crashed" (render threw)
  pendingEffect,        \* "mount", "index" or "none": effects queued by the last render
  \* SocialMediaPlayer: observation
  onErrorCalls,         \* messages passed to props.onError, in order
  failedLoads,          \* strategies whose URL the web view reported as failed
  indexAtFailure,       \* currentStrategyIndex when a failure last scheduled a retry
  lastHandler,          \* the handler that ran last
  \* UniversalVideoPlayer: props, detectVideoSource(url), canPlayVideo(url, tier)
  sourceType,           \* sourceInfo.type
  requiresWebView,      \* sourceInfo.requiresWebView
  hasSocialConfig,      \* getSocialMediaConfig(url) is not null/undefined
  canPlay,              \* playbackEligibility.canPlay
  reason,               \* playbackEligibility.reason ("" when absent)
  uvMaxRetries,         \* the maxRetries prop
  hasVideoId,           \* sourceInfo.videoId is set
  autoPlay,             \* the autoPlay prop
  \* UniversalVideoPlayer: state cells and refs
  uvIsLoading,          \* isLoading
  playbackError,
  uvRetryCount,         \* retryCount
  showControls,
  loadTimeoutRef,       \* 0 (null) or 1: a handle is stored
  \* UniversalVideoPlayer: environment
  loadTimer,            \* Null, or the retryCount captured by the pending handleLoadTimeout
  controlsTimer,        \* the 3 s timer of the showControls effect is pending
  pendingRetries,       \* number of delayed retry callbacks pending
  uvPendingEffect,      \* "mount" until the effects of the first render have run
  \* UniversalVideoPlayer: observation
  uvOnError,            \* the last message passed to props.onError ("null": none yet)
  autoRetries,          \* automatic retries performed since the mount
  triedUris,            \* the URIs the web view has been given since the mount
  uvLastHandler

smVars == <<hasConfig, embedStrategies, autoRetry, maxRetries, isLoading, error,
            currentStrategyIndex, retryCount, embedUrl, retryTimeoutRef, timers,
            phase, pendingEffect, onErrorCalls, failedLoads, indexAtFailure,
            lastHandler>>

uvVars == <<sourceType, requiresWebView, hasSocialConfig, canPlay, reason, uvMaxRetries,
            hasVideoId, autoPlay, triedUris, uvIsLoading, playbackError, uvRetryCount,
            showControls, loadTimeoutRef,
            loadTimer, controlsTimer, pendingRetries, uvPendingEffect, uvOnError,
            autoRetries, uvLastHandler>>

vars == <<smVars, uvVars>>

\* ------------------------------------------------------ SocialMediaPlayer

NumStrategies == Len(embedStrategies)

\* strategy.getEmbedUrl(url) for the strategy at index i (0-based as in the source)
getEmbedUrl(i) == IF embedStrategies[i + 1] THEN i ELSE Null

UnsupportedMsg == "Unsupported social media platform"
AllFailedMsg == "Failed to load video after trying all strategies"
Descriptions == {"", "net::ERR_FAILED"}
HttpStatuses == {200, 404, 503}

\* `Failed to load ${config.platform} video: ${nativeEvent.description || 'Unknown error'}`
LoadFailedMsg(description) ==
  "Failed to load video: " \o (IF description = "" THEN "Unknown error" ELSE description)

\* `HTTP Error ${nativeEvent.statusCode}`
HttpErrorMsg(statusCode) == "HTTP Error " \o ToString(statusCode)

\* The render: the error view is returned when there is no config or no embed URL,
\* and replaces the web view when error is set.
WebViewShown == hasConfig /\ embedUrl # Null /\ error = NoError /\ phase = "mounted"

\* uri of the <WebView source>, Null when the web view is not rendered
WebViewUri == IF WebViewShown THEN embedUrl ELSE Null

\* Variant: the button stays until retryCount exceeds maxRetries
RetryOffered_Inclusive ==
  /\ phase = "mounted"
  /\ hasConfig
  /\ (embedUrl = Null \/ error # NoError)
  /\ retryCount <= maxRetries

\* The retry button of renderError
RetryOffered ==
  /\ phase = "mounted"
  /\ hasConfig
  /\ (embedUrl = Null \/ error # NoError)
  /\ retryCount < maxRetries

\* The render reads config.embedStrategies[currentStrategyIndex].headers once
\* config and embedUrl are set: it throws when the index is out of range.
RenderThrows(index, url) == hasConfig /\ url # Null /\ index >= NumStrategies

\* setTimeout: the smallest handle that is neither pending nor the one just used
FreeHandles(pending) == {h \in 1..MaxTimers : h \notin pending /\ h # retryTimeoutRef}
NewHandle(pending) == CHOOSE h \in FreeHandles(pending) : \A g \in FreeHandles(pending) : h <= g

\* Variant: the previous timer is left running
ClearRetryTimeout_Skipped(pending) == pending

\* if (retryTimeoutRef.current) clearTimeout(retryTimeoutRef.current)
ClearRetryTimeout(pending) == pending \ {retryTimeoutRef}

\* What follows every state update: the render, and the unmount (with the
\* cleanup of the timer) when the render throws.
Rendered(queued) ==
  IF RenderThrows(currentStrategyIndex', embedUrl')
  THEN /\ phase' = "crashed"
       /\ pendingEffect' = "none"
  ELSE /\ phase' = phase
       /\ pendingEffect' = queued

IndexEffectQueued == IF currentStrategyIndex' # currentStrategyIndex THEN "index" ELSE "none"

\* Variant: a strategy without an embed URL also skips its successor
tryNextStrategy_SkipsTwo ==
  IF ~hasConfig
  THEN /\ error' = UnsupportedMsg
       /\ onErrorCalls' = Append(onErrorCalls, UnsupportedMsg)
       /\ UNCHANGED <<isLoading, currentStrategyIndex, embedUrl>>
  ELSE IF currentStrategyIndex >= NumStrategies
  THEN /\ error' = AllFailedMsg
       /\ onErrorCalls' = Append(onErrorCalls, AllFailedMsg)
       /\ isLoading' = FALSE
       /\ UNCHANGED <<currentStrategyIndex, embedUrl>>
  ELSE IF getEmbedUrl(currentStrategyIndex) = Null
  THEN /\ currentStrategyIndex' = currentStrategyIndex + 2
       /\ UNCHANGED <<isLoading, error, embedUrl, onErrorCalls>>
  ELSE /\ embedUrl' = getEmbedUrl(currentStrategyIndex)
       /\ isLoading' = TRUE
       /\ error' = NoError
       /\ UNCHANGED <<currentStrategyIndex, onErrorCalls>>

tryNextStrategy ==
  IF ~hasConfig
  THEN /\ error' = UnsupportedMsg
       /\ onErrorCalls' = Append(onErrorCalls, UnsupportedMsg)
       /\ UNCHANGED <<isLoading, currentStrategyIndex, embedUrl>>
  ELSE IF currentStrategyIndex >= NumStrategies
  THEN /\ error' = AllFailedMsg
       /\ onErrorCalls' = Append(onErrorCalls, AllFailedMsg)
       /\ isLoading' = FALSE
       /\ UNCHANGED <<currentStrategyIndex, embedUrl>>
  ELSE IF getEmbedUrl(currentStrategyIndex) = Null
  THEN /\ currentStrategyIndex' = currentStrategyIndex + 1
       /\ UNCHANGED <<isLoading, error, embedUrl, onErrorCalls>>
  ELSE /\ embedUrl' = getEmbedUrl(currentStrategyIndex)
       /\ isLoading' = TRUE
       /\ error' = NoError
       /\ UNCHANGED <<currentStrategyIndex, onErrorCalls>>

\* tryNextStrategy reaches its last branch: a new embed URL is set
SetsEmbedUrl ==
  /\ currentStrategyIndex < NumStrategies
  /\ getEmbedUrl(currentStrategyIndex) # Null

\* Variant: the unsupported branch does not return and goes on to tryNextStrategy,
\* which reports the same error again
MountEffect_NoReturn ==
  /\ phase = "mounted"
  /\ pendingEffect = "mount"
  /\ IF ~hasConfig
     THEN /\ error' = UnsupportedMsg
          /\ onErrorCalls' = onErrorCalls \o <<UnsupportedMsg, UnsupportedMsg>>
          /\ UNCHANGED <<isLoading, currentStrategyIndex, embedUrl>>
     ELSE tryNextStrategy
  /\ indexAtFailure' = IF hasConfig /\ SetsEmbedUrl THEN Null ELSE indexAtFailure
  /\ Rendered(IndexEffectQueued)
  /\ timers' = IF phase' = "crashed" THEN ClearRetryTimeout(timers) ELSE timers
  /\ lastHandler' = "mountEffect"
  /\ UNCHANGED <<uvVars, hasConfig, embedStrategies, autoRetry, maxRetries, retryCount,
                 retryTimeoutRef, failedLoads>>

\* useEffect(..., []) of lines 85-95, with the first run of the other effects
MountEffect ==
  /\ phase = "mounted"
  /\ pendingEffect = "mount"
  /\ IF ~hasConfig
     THEN /\ error' = UnsupportedMsg
          /\ onErrorCalls' = Append(onErrorCalls, UnsupportedMsg)
          /\ UNCHANGED <<isLoading, currentStrategyIndex, embedUrl>>
     ELSE tryNextStrategy
  /\ indexAtFailure' = IF hasConfig /\ SetsEmbedUrl THEN Null ELSE indexAtFailure
  /\ Rendered(IndexEffectQueued)
  /\ timers' = IF phase' = "crashed" THEN ClearRetryTimeout(timers) ELSE timers
  /\ lastHandler' = "mountEffect"
  /\ UNCHANGED <<uvVars, hasConfig, embedStrategies, autoRetry, maxRetries, retryCount,
                 retryTimeoutRef, failedLoads>>

\* useEffect(..., [currentStrategyIndex]) of lines 97-102
IndexEffect ==
  /\ phase = "mounted"
  /\ pendingEffect = "index"
  /\ IF currentStrategyIndex > 0 /\ hasConfig
     THEN tryNextStrategy
     ELSE UNCHANGED <<isLoading, error, currentStrategyIndex, embedUrl, onErrorCalls>>
  /\ indexAtFailure' = IF currentStrategyIndex > 0 /\ hasConfig /\ SetsEmbedUrl
                       THEN Null ELSE indexAtFailure
  /\ Rendered(IndexEffectQueued)
  /\ timers' = IF phase' = "crashed" THEN ClearRetryTimeout(timers) ELSE timers
  /\ lastHandler' = "indexEffect"
  /\ UNCHANGED <<uvVars, hasConfig, embedStrategies, autoRetry, maxRetries, retryCount,
                 retryTimeoutRef, failedLoads>>

Idle == phase = "mounted" /\ pendingEffect = "none"

handleLoadStart ==
  /\ Idle /\ WebViewShown
  /\ isLoading' = TRUE
  /\ lastHandler' = "loadStart"
  /\ UNCHANGED <<uvVars, hasConfig, embedStrategies, autoRetry, maxRetries, error,
                 currentStrategyIndex, retryCount, embedUrl, retryTimeoutRef, timers,
                 phase, pendingEffect, onErrorCalls, failedLoads, indexAtFailure>>

handleLoadEnd ==
  /\ Idle /\ WebViewShown
  /\ isLoading' = FALSE
  /\ lastHandler' = "loadEnd"
  /\ UNCHANGED <<uvVars, hasConfig, embedStrategies, autoRetry, maxRetries, error,
                 currentStrategyIndex, retryCount, embedUrl, retryTimeoutRef, timers,
                 phase, pendingEffect, onErrorCalls, failedLoads, indexAtFailure>>

\* Variant: the retry branch logs but sets no timer
ScheduleRetry_NoTimer ==
  /\ indexAtFailure' = currentStrategyIndex
  /\ UNCHANGED <<error, isLoading, onErrorCalls, retryTimeoutRef, timers>>

\* The two branches shared by handleError and handleHttpError
ScheduleRetry ==
  /\ FreeHandles(ClearRetryTimeout(timers)) # {}
  /\ retryTimeoutRef' = NewHandle(ClearRetryTimeout(timers))
  /\ timers' = ClearRetryTimeout(timers) \cup {retryTimeoutRef'}
  /\ indexAtFailure' = currentStrategyIndex
  /\ UNCHANGED <<error, isLoading, onErrorCalls>>

\* Variant: the final failure is shown but not reported to the caller
FinalFailure_Unreported(finalError) ==
  /\ error' = finalError
  /\ isLoading' = FALSE
  /\ UNCHANGED <<onErrorCalls, retryTimeoutRef, timers, indexAtFailure>>

FinalFailure(finalError) ==
  /\ error' = finalError
  /\ isLoading' = FALSE
  /\ onErrorCalls' = Append(onErrorCalls, finalError)
  /\ UNCHANGED <<retryTimeoutRef, timers, indexAtFailure>>

handleError(description) ==
  /\ Idle /\ WebViewShown
  /\ hasConfig
  /\ IF autoRetry /\ currentStrategyIndex < NumStrategies - 1
     THEN ScheduleRetry
     ELSE FinalFailure(LoadFailedMsg(description))
  /\ failedLoads' = failedLoads \cup {WebViewUri}
  /\ lastHandler' = "error"
  /\ UNCHANGED <<uvVars, hasConfig, embedStrategies, autoRetry, maxRetries,
                 currentStrategyIndex, retryCount, embedUrl, phase, pendingEffect>>

handleHttpError(statusCode) ==
  /\ Idle /\ WebViewShown
  /\ IF statusCode >= 400 /\ hasConfig
     THEN /\ IF autoRetry /\ currentStrategyIndex < NumStrategies - 1
             THEN ScheduleRetry
             ELSE FinalFailure(HttpErrorMsg(statusCode))
          /\ failedLoads' = failedLoads \cup {WebViewUri}
     ELSE UNCHANGED <<error, isLoading, onErrorCalls, retryTimeoutRef, timers,
                      indexAtFailure, failedLoads>>
  /\ lastHandler' = IF statusCode >= 400 THEN "httpError" ELSE "httpStatus"
  /\ UNCHANGED <<uvVars, hasConfig, embedStrategies, autoRetry, maxRetries,
                 currentStrategyIndex, retryCount, embedUrl, phase, pendingEffect>>

\* The callback given to setTimeout by handleError and handleHttpError
RetryTimerFires(h) ==
  /\ Idle
  /\ h \in timers
  /\ currentStrategyIndex' = currentStrategyIndex + 1
  /\ UNCHANGED <<uvVars, hasConfig, embedStrategies, autoRetry, maxRetries, isLoading, error,
                 retryCount, embedUrl, retryTimeoutRef, onErrorCalls, failedLoads,
                 indexAtFailure>>
  /\ Rendered("index")
  /\ timers' = IF phase' = "crashed" THEN ClearRetryTimeout(timers \ {h}) ELSE timers \ {h}
  /\ lastHandler' = "retryTimer"

handleManualRetry ==
  /\ Idle /\ RetryOffered
  /\ retryCount' = retryCount + 1
  /\ currentStrategyIndex' = 0
  /\ error' = NoError
  /\ UNCHANGED <<uvVars, hasConfig, embedStrategies, autoRetry, maxRetries, isLoading,
                 embedUrl, retryTimeoutRef, timers, onErrorCalls, failedLoads>>
  /\ Rendered(IndexEffectQueued)
  /\ indexAtFailure' = Null
  /\ lastHandler' = "manualRetry"

\* The cleanup of the effect of lines 104-110
Unmount ==
  /\ Idle
  /\ phase' = "unmounted"
  /\ timers' = ClearRetryTimeout(timers)
  /\ lastHandler' = "unmount"
  /\ UNCHANGED <<uvVars, hasConfig, embedStrategies, autoRetry, maxRetries, isLoading, error,
                 currentStrategyIndex, retryCount, embedUrl, retryTimeoutRef,
                 pendingEffect, onErrorCalls, failedLoads, indexAtFailure>>

StrategyLists == UNION {[1..n -> BOOLEAN] : n \in 1..MaxStrategies}

SocialInit ==
  /\ hasConfig \in BOOLEAN
  /\ embedStrategies \in StrategyLists
  /\ (~hasConfig => embedStrategies = <<TRUE>>)
  /\ autoRetry \in BOOLEAN
  /\ maxRetries \in 0..MaxManualRetries
  /\ isLoading = TRUE
  /\ error = NoError
  /\ currentStrategyIndex = 0
  /\ retryCount = 0
  /\ embedUrl = Null
  /\ retryTimeoutRef = 0
  /\ timers = {}
  /\ phase = "mounted"
  /\ pendingEffect = "mount"
  /\ onErrorCalls = <<>>
  /\ failedLoads = {}
  /\ indexAtFailure = Null
  /\ lastHandler = "none"

SocialNext ==
  \/ MountEffect
  \/ IndexEffect
  \/ handleLoadStart
  \/ handleLoadEnd
  \/ \E description \in Descriptions : handleError(description)
  \/ \E statusCode \in HttpStatuses : handleHttpError(statusCode)
  \/ \E h \in 1..MaxTimers : RetryTimerFires(h)
  \/ handleManualRetry
  \/ Unmount

\* ---------------------------------------------------- UniversalVideoPlayer

SocialTypes == {"twitter", "instagram", "tiktok"}
NativeTypes == {"direct", "stream", "hls", "dash"}
WebViewTypes == {"youtube", "vimeo", "webview", "adult", "twitter", "instagram", "tiktok",
                 "twitch", "facebook", "dailymotion", "rumble", "odysee", "bilibili",
                 "gdrive", "dropbox"}
SourceTypes == WebViewTypes \cup NativeTypes \cup {"unknown"}
Reasons == {"", "Upgrade your membership"}

TimeoutMsg == "Video load timeout. The video is taking too long to load."
YouTubeFailedMsg == "YouTube load failed after " \o ToString(uvMaxRetries) \o " methods"
AdultFailedMsg == "platform cannot be loaded"
\* `Failed to load ${sourceInfo.platform}: ${nativeEvent.description}`
WebViewFailedMsg(description) == "Failed to load platform: " \o description
\* `HTTP Error ${nativeEvent.statusCode}: ${nativeEvent.url}`
PlayerHttpErrorMsg(statusCode) == "HTTP Error " \o ToString(statusCode) \o ": url"
\* playbackEligibility.reason || 'Cannot play this video'
EligibilityMsg == IF reason = "" THEN "Cannot play this video" ELSE reason

\* status.error of the native player: absent, an object with a message, a string,
\* or another object (text is then its JSON form)
\* nativeEvent.statusCode of onHttpError, at both sides of 400 and of 500
PlayerHttpStatuses == {399, 400, 499, 500}

\* The class of a status as onHttpError tells them apart
HttpHandlerName(statusCode) ==
  IF statusCode < 400 THEN "httpStatus"
  ELSE IF statusCode >= 500 THEN "http5xx"
  ELSE "http4xx"

NativeErrors == {[kind |-> "none", text |-> ""],
                 [kind |-> "other", text |-> "{}"],
                 [kind |-> "object", text |-> ""],
                 [kind |-> "object", text |-> "decoder failed"],
                 [kind |-> "string", text |-> "bad source"]}

ExtractErrorMsg(err) ==
  IF err.kind = "none" \/ (err.kind = "string" /\ err.text = "")
  THEN "Unknown playback error"
  ELSE IF err.kind = "object"
  THEN (IF err.text = "" THEN "Unknown error" ELSE err.text)
  ELSE err.text

\* Variant: the web view is chosen without looking at the social-media player
shouldUseWebView_IgnoresSocial ==
  requiresWebView \/ sourceType \in WebViewTypes

useSocialMediaPlayer == hasSocialConfig /\ sourceType \in SocialTypes

shouldUseWebView ==
  /\ ~useSocialMediaPlayer
  /\ (requiresWebView \/ sourceType \in WebViewTypes)

shouldUseNativePlayerRender ==
  /\ ~useSocialMediaPlayer
  /\ ~shouldUseWebView
  /\ sourceType \in NativeTypes

\* The surface the component returns
Surface ==
  IF playbackError # NoError THEN "error"
  ELSE IF useSocialMediaPlayer THEN "social"
  ELSE IF shouldUseWebView THEN "webview"
  ELSE IF shouldUseNativePlayerRender THEN "native"
  ELSE "error"

UvIdle == uvPendingEffect = "none"

\* autoPlay ? '1' : '0'
AutoPlayParam == IF autoPlay THEN "1" ELSE "0"

\* The caller's url prop and the sample video given to an unused native player
CallerUrl == "url"
PlaceholderUrl ==
  "https://commondatastorage.googleapis.com/gtv-videos-bucket/sample/BigBuckBunny.mp4"

getYouTubeEmbedUrl == "https://www.youtube.com/embed/id?autoplay=" \o AutoPlayParam
getYouTubeWebPlayerUrl == "https://www.youtube.com/watch?v=id&autoplay=" \o AutoPlayParam
getYouTubeNoEmbedUrl ==
  "https://www.youtube-nocookie.com/embed/id?autoplay=" \o AutoPlayParam
getVimeoEmbedUrl == "https://player.vimeo.com/video/id?autoplay=" \o AutoPlayParam

\* Variant: every retry of a YouTube source loads the no-cookie embed
WebViewSourceUri_NoWatchPage ==
  IF sourceType = "youtube" /\ hasVideoId
  THEN (IF uvRetryCount = 0 THEN getYouTubeEmbedUrl ELSE getYouTubeNoEmbedUrl)
  ELSE IF sourceType = "vimeo" /\ hasVideoId THEN getVimeoEmbedUrl
  ELSE CallerUrl

\* embedUrl of renderWebViewPlayer, the uri of the web view's source
WebViewSourceUri ==
  IF sourceType = "youtube" /\ hasVideoId
  THEN (IF uvRetryCount = 0 THEN getYouTubeEmbedUrl
        ELSE IF uvRetryCount = 1 THEN getYouTubeWebPlayerUrl
        ELSE getYouTubeNoEmbedUrl)
  ELSE IF sourceType = "vimeo" /\ hasVideoId THEN getVimeoEmbedUrl
  ELSE CallerUrl

\* A render that returns the web view gives it the uri of that render
WebViewRendered ==
  triedUris' = triedUris \cup (IF Surface' = "webview" THEN {WebViewSourceUri'} ELSE {})

\* The native player of useVideoPlayer exists on every surface
shouldUseNativePlayer == sourceType \in NativeTypes
\* the caller's url is never blank
safeUrl == IF shouldUseNativePlayer THEN CallerUrl ELSE PlaceholderUrl
NativeAutoPlays == autoPlay /\ shouldUseNativePlayer
WebViewMounted == UvIdle /\ Surface = "webview"

\* Variant: the eligibility effect reports the error without showing it
UvMountEffect_ReportsOnly ==
  /\ uvPendingEffect = "mount"
  /\ uvPendingEffect' = "none"
  /\ IF ~canPlay
     THEN /\ uvOnError' = EligibilityMsg
          /\ UNCHANGED playbackError
     ELSE UNCHANGED <<playbackError, uvOnError>>
  /\ controlsTimer' = showControls
  /\ uvLastHandler' = "mountEffect"
  /\ UNCHANGED <<smVars, hasVideoId, autoPlay, sourceType, requiresWebView,
                 hasSocialConfig, canPlay, reason,
                 uvMaxRetries, uvIsLoading, uvRetryCount, showControls, loadTimeoutRef,
                 loadTimer, pendingRetries, autoRetries>>
  /\ WebViewRendered

\* The effects of the first render: eligibility (lines 95-114) and the
\* showControls effect (lines 116-124)
UvMountEffect ==
  /\ uvPendingEffect = "mount"
  /\ uvPendingEffect' = "none"
  /\ IF ~canPlay
     THEN /\ playbackError' = EligibilityMsg
          /\ uvOnError' = EligibilityMsg
     ELSE UNCHANGED <<playbackError, uvOnError>>
  /\ controlsTimer' = showControls
  /\ uvLastHandler' = "mountEffect"
  /\ UNCHANGED <<smVars, hasVideoId, autoPlay, sourceType, requiresWebView,
                 hasSocialConfig, canPlay, reason,
                 uvMaxRetries, uvIsLoading, uvRetryCount, showControls, loadTimeoutRef,
                 loadTimer, pendingRetries, autoRetries>>
  /\ WebViewRendered

\* setTimeout(() => { setRetryCount(prev => prev + 1); ... }, delay)
ScheduleDelayedRetry ==
  /\ pendingRetries < MaxPendingRetries
  /\ pendingRetries' = pendingRetries + 1
  /\ UNCHANGED <<playbackError, uvOnError>>

ReportPlaybackError(msg) ==
  /\ playbackError' = msg
  /\ uvOnError' = msg
  /\ UNCHANGED pendingRetries

\* clearLoadTimeout: clears the pending timer and nulls the ref
clearLoadTimeout ==
  /\ loadTimer' = Null
  /\ loadTimeoutRef' = 0

\* onLoadStart: setIsLoading(true); startLoadTimeout()
UvLoadStart ==
  /\ WebViewMounted
  /\ uvIsLoading' = TRUE
  /\ loadTimer' = uvRetryCount
  /\ loadTimeoutRef' = 1
  /\ uvLastHandler' = "loadStart"
  /\ UNCHANGED <<smVars, hasVideoId, autoPlay, triedUris, sourceType, requiresWebView,
                 hasSocialConfig, canPlay, reason,
                 uvMaxRetries, playbackError, uvRetryCount, showControls, controlsTimer,
                 pendingRetries, uvPendingEffect, uvOnError, autoRetries>>

\* onLoadEnd: clearLoadTimeout(); setIsLoading(false); setRetryCount(0)
UvLoadEnd ==
  /\ WebViewMounted
  /\ clearLoadTimeout
  /\ uvIsLoading' = FALSE
  /\ uvRetryCount' = 0
  /\ uvLastHandler' = "loadEnd"
  /\ UNCHANGED <<smVars, hasVideoId, autoPlay, sourceType, requiresWebView,
                 hasSocialConfig, canPlay, reason,
                 uvMaxRetries, playbackError, showControls, controlsTimer,
                 pendingRetries, uvPendingEffect, uvOnError, autoRetries>>
  /\ WebViewRendered

\* onError of the web view
UvError(description) ==
  /\ WebViewMounted
  /\ clearLoadTimeout
  /\ IF uvRetryCount < uvMaxRetries
     THEN ScheduleDelayedRetry
     ELSE IF sourceType = "youtube" THEN ReportPlaybackError(YouTubeFailedMsg)
     ELSE IF sourceType = "adult" THEN ReportPlaybackError(AdultFailedMsg)
     ELSE ReportPlaybackError(WebViewFailedMsg(description))
  /\ uvLastHandler' = "error"
  /\ UNCHANGED <<smVars, hasVideoId, autoPlay, sourceType, requiresWebView,
                 hasSocialConfig, canPlay, reason,
                 uvMaxRetries, uvIsLoading, uvRetryCount, showControls, controlsTimer,
                 uvPendingEffect, autoRetries>>
  /\ WebViewRendered

\* Variant: every status from 400 on is retried while retries are left
UvHttpError_RetriesAll(statusCode) ==
  /\ WebViewMounted
  /\ clearLoadTimeout
  /\ IF statusCode >= 400
     THEN IF uvRetryCount < uvMaxRetries
          THEN ScheduleDelayedRetry
          ELSE ReportPlaybackError(PlayerHttpErrorMsg(statusCode))
     ELSE UNCHANGED <<playbackError, uvOnError, pendingRetries>>
  /\ uvLastHandler' = HttpHandlerName(statusCode)
  /\ UNCHANGED <<smVars, hasVideoId, autoPlay, sourceType, requiresWebView,
                 hasSocialConfig, canPlay, reason,
                 uvMaxRetries, uvIsLoading, uvRetryCount, showControls, controlsTimer,
                 uvPendingEffect, autoRetries>>
  /\ WebViewRendered

\* onHttpError of the web view
UvHttpError(statusCode) ==
  /\ WebViewMounted
  /\ clearLoadTimeout
  /\ IF statusCode >= 400
     THEN IF uvRetryCount < uvMaxRetries /\ statusCode >= 500
          THEN ScheduleDelayedRetry
          ELSE ReportPlaybackError(PlayerHttpErrorMsg(statusCode))
     ELSE UNCHANGED <<playbackError, uvOnError, pendingRetries>>
  /\ uvLastHandler' = HttpHandlerName(statusCode)
  /\ UNCHANGED <<smVars, hasVideoId, autoPlay, sourceType, requiresWebView,
                 hasSocialConfig, canPlay, reason,
                 uvMaxRetries, uvIsLoading, uvRetryCount, showControls, controlsTimer,
                 uvPendingEffect, autoRetries>>
  /\ WebViewRendered

\* The delayed callback: setRetryCount(prev => prev + 1); setIsLoading(true);
\* setPlaybackError(null)
DelayedRetryFires ==
  /\ UvIdle
  /\ pendingRetries > 0
  /\ autoRetries < MaxAutoRetries
  /\ pendingRetries' = pendingRetries - 1
  /\ uvRetryCount' = uvRetryCount + 1
  /\ uvIsLoading' = TRUE
  /\ playbackError' = NoError
  /\ autoRetries' = autoRetries + 1
  /\ uvLastHandler' = "delayedRetry"
  /\ UNCHANGED <<smVars, hasVideoId, autoPlay, sourceType, requiresWebView,
                 hasSocialConfig, canPlay, reason,
                 uvMaxRetries, showControls, loadTimeoutRef, loadTimer, controlsTimer,
                 uvPendingEffect, uvOnError>>
  /\ WebViewRendered

\* handleLoadTimeout, run by the timer of startLoadTimeout with the retryCount
\* of the render that started the timer
handleLoadTimeout ==
  /\ UvIdle
  /\ loadTimer # Null
  /\ loadTimer' = Null
  /\ IF loadTimer < uvMaxRetries
     THEN /\ autoRetries < MaxAutoRetries
          /\ uvRetryCount' = uvRetryCount + 1
          /\ uvIsLoading' = TRUE
          /\ playbackError' = NoError
          /\ autoRetries' = autoRetries + 1
          /\ UNCHANGED uvOnError
     ELSE /\ playbackError' = TimeoutMsg
          /\ uvIsLoading' = FALSE
          /\ uvOnError' = TimeoutMsg
          /\ UNCHANGED <<uvRetryCount, autoRetries>>
  /\ uvLastHandler' = "loadTimeout"
  /\ UNCHANGED <<smVars, hasVideoId, autoPlay, sourceType, requiresWebView,
                 hasSocialConfig, canPlay, reason,
                 uvMaxRetries, showControls, loadTimeoutRef, controlsTimer,
                 pendingRetries, uvPendingEffect>>
  /\ WebViewRendered

\* The 3 s timer: setShowControls(false); the cleanup of the showControls effect
\* then clears the controls timer and the load timer
ControlsTimerFires ==
  /\ UvIdle
  /\ controlsTimer
  /\ showControls' = FALSE
  /\ controlsTimer' = FALSE
  /\ loadTimer' = Null
  /\ uvLastHandler' = "controlsTimer"
  /\ UNCHANGED <<smVars, hasVideoId, autoPlay, triedUris, sourceType, requiresWebView,
                 hasSocialConfig, canPlay, reason,
                 uvMaxRetries, uvIsLoading, playbackError, uvRetryCount, loadTimeoutRef,
                 pendingRetries, uvPendingEffect, uvOnError, autoRetries>>

\* onPress of the native surface: setShowControls(true); when that changes the
\* state the effect is cleaned up (both timers cleared) and run again
ShowControlsPress ==
  /\ UvIdle
  /\ Surface = "native"
  /\ showControls' = TRUE
  /\ controlsTimer' = TRUE
  /\ loadTimer' = IF showControls THEN loadTimer ELSE Null
  /\ uvLastHandler' = "press"
  /\ UNCHANGED <<smVars, hasVideoId, autoPlay, triedUris, sourceType, requiresWebView,
                 hasSocialConfig, canPlay, reason,
                 uvMaxRetries, uvIsLoading, playbackError, uvRetryCount, loadTimeoutRef,
                 pendingRetries, uvPendingEffect, uvOnError, autoRetries>>

\* statusChange listener of the native player, status 'readyToPlay'
NativeReadyToPlay ==
  /\ UvIdle
  /\ uvIsLoading' = FALSE
  /\ uvLastHandler' = "nativeReady"
  /\ UNCHANGED <<smVars, hasVideoId, autoPlay, triedUris, sourceType, requiresWebView,
                 hasSocialConfig, canPlay, reason,
                 uvMaxRetries, playbackError, uvRetryCount, showControls, loadTimeoutRef,
                 loadTimer, controlsTimer, pendingRetries, uvPendingEffect, uvOnError,
                 autoRetries>>

\* Variant: the error of the native player is shown for web-view sources too
NativeError_AlwaysReports(err) ==
  /\ UvIdle
  /\ IF FALSE
     THEN UNCHANGED <<playbackError, uvOnError>>
     ELSE /\ playbackError' = "Playback error: " \o ExtractErrorMsg(err)
          /\ uvOnError' = playbackError'
  /\ uvLastHandler' = "nativeError"
  /\ UNCHANGED <<smVars, hasVideoId, autoPlay, sourceType, requiresWebView,
                 hasSocialConfig, canPlay, reason,
                 uvMaxRetries, uvIsLoading, uvRetryCount, showControls, loadTimeoutRef,
                 loadTimer, controlsTimer, pendingRetries, uvPendingEffect, autoRetries>>
  /\ WebViewRendered

\* statusChange listener of the native player, status 'error'
NativeError(err) ==
  /\ UvIdle
  /\ IF requiresWebView \/ sourceType = "youtube" \/ sourceType = "adult"
     THEN UNCHANGED <<playbackError, uvOnError>>
     ELSE /\ playbackError' = "Playback error: " \o ExtractErrorMsg(err)
          /\ uvOnError' = playbackError'
  /\ uvLastHandler' = "nativeError"
  /\ UNCHANGED <<smVars, hasVideoId, autoPlay, sourceType, requiresWebView,
                 hasSocialConfig, canPlay, reason,
                 uvMaxRetries, uvIsLoading, uvRetryCount, showControls, loadTimeoutRef,
                 loadTimer, controlsTimer, pendingRetries, uvPendingEffect, autoRetries>>
  /\ WebViewRendered

\* onLoad of the embedded SocialMediaPlayer: setIsLoading(false)
SocialOnLoad ==
  /\ UvIdle
  /\ Surface = "social"
  /\ uvIsLoading' = FALSE
  /\ uvLastHandler' = "socialOnLoad"
  /\ UNCHANGED <<smVars, hasVideoId, autoPlay, triedUris, sourceType, requiresWebView,
                 hasSocialConfig, canPlay, reason,
                 uvMaxRetries, playbackError, uvRetryCount, showControls, loadTimeoutRef,
                 loadTimer, controlsTimer, pendingRetries, uvPendingEffect, uvOnError,
                 autoRetries>>

UniversalInit ==
  /\ sourceType \in SourceTypes
  /\ requiresWebView \in BOOLEAN
  /\ hasSocialConfig \in BOOLEAN
  /\ canPlay \in BOOLEAN
  /\ reason \in Reasons
  /\ (canPlay => reason = "")
  /\ uvMaxRetries \in 0..MaxPlayerRetries
  \* videoId is read for youtube and vimeo only, autoPlay for those two and for
  \* the native types only
  /\ hasVideoId \in BOOLEAN
  /\ (hasVideoId => sourceType \in {"youtube", "vimeo"})
  /\ autoPlay \in BOOLEAN
  /\ (autoPlay => sourceType \in {"youtube", "vimeo"} \cup NativeTypes)
  /\ uvIsLoading = TRUE
  /\ playbackError = NoError
  /\ uvRetryCount = 0
  /\ showControls = TRUE
  /\ loadTimeoutRef = 0
  /\ loadTimer = Null
  /\ controlsTimer = FALSE
  /\ pendingRetries = 0
  /\ uvPendingEffect = "mount"
  /\ uvOnError = NoError
  /\ autoRetries = 0
  /\ uvLastHandler = "none"
  /\ triedUris = IF Surface = "webview" THEN {WebViewSourceUri} ELSE {}

UniversalNext ==
  \/ UvMountEffect
  \/ UvLoadStart
  \/ UvLoadEnd
  \/ \E description \in Descriptions : UvError(description)
  \/ \E statusCode \in PlayerHttpStatuses : UvHttpError(statusCode)
  \/ DelayedRetryFires
  \/ handleLoadTimeout
  \/ ControlsTimerFires
  \/ ShowControlsPress
  \/ NativeReadyToPlay
  \/ \E err \in NativeErrors : NativeError(err)
  \/ SocialOnLoad

\* ---------------------------------------------------------- specifications

\* A SocialMediaPlayer on its own
Init ==
  /\ SocialInit
  /\ UniversalInit
  /\ sourceType = "twitter" /\ ~requiresWebView /\ hasSocialConfig = hasConfig
  /\ canPlay /\ uvMaxRetries = 0 /\ ~hasVideoId /\ ~autoPlay

Next == SocialNext
Spec == Init /\ [][Next]_vars

\* A UniversalVideoPlayer; the SocialMediaPlayer it may embed is left at rest
UniversalStart ==
  /\ UniversalInit
  /\ SocialInit
  /\ hasConfig = hasSocialConfig /\ embedStrategies = <<TRUE>>
  /\ autoRetry /\ maxRetries = 0

UniversalStep == UniversalNext
UniversalSpec == UniversalStart /\ [][UniversalStep]_vars

\* Timers fire and queued effects run; an unmount is never forced.
FairSpec ==
  /\ Spec
  /\ WF_vars(MountEffect)
  /\ WF_vars(IndexEffect)
  /\ WF_vars(\E h \in 1..MaxTimers : RetryTimerFires(h))

\* ------------------------------------------------ SocialMediaPlayer: claims

IsFailureReport(h) == h \in {"error", "httpError"}

\* autoRetry && currentStrategyIndex < config.embedStrategies.length - 1
RetryBranch == autoRetry /\ currentStrategyIndex < NumStrategies - 1

\* C1: currentStrategyIndex starts at 0 and, apart from a manual retry (which sets
\* it to 0), every step leaves it alone or adds one; and whenever the web view
\* loads the URL of strategy i, every strategy j < i either yields no embed URL or
\* has had its load reported as failed.
C1_StrategiesTriedInOrder ==
  /\ currentStrategyIndex = 0
  /\ [][\/ currentStrategyIndex' = currentStrategyIndex
        \/ currentStrategyIndex' = currentStrategyIndex + 1
        \/ lastHandler' = "manualRetry" /\ currentStrategyIndex' = 0]_vars
  /\ [](\A i \in 1..(MaxStrategies + 1) :
          WebViewUri = i =>
            \A j \in 0..(i - 1) : getEmbedUrl(j) = Null \/ j \in failedLoads)

C1_Witness ==
  /\ WebViewUri = 2
  /\ currentStrategyIndex = 2
  /\ getEmbedUrl(0) = Null
  /\ failedLoads = {1}
  /\ lastHandler = "indexEffect"

\* A failure has just been reported on the retry branch with strategy i current
FailureReportedAt(i) ==
  /\ phase = "mounted"
  /\ IsFailureReport(lastHandler)
  /\ currentStrategyIndex = i
  /\ RetryBranch

\* The steps between the failure report and the load of the next URL
AwaitingRetry ==
  \/ timers # {}
  \/ /\ pendingEffect = "index"
     /\ lastHandler = "retryTimer"
     /\ SetsEmbedUrl

\* C2 as stated: after a failure report on the retry branch at strategy i, the
\* component (unless unmounted) reaches currentStrategyIndex = i + 1 with the URL
\* of strategy i + 1 in the web view, error staying null and onError not invoked
\* in the meantime.  In steps: the effect that follows the firing of the retry
\* timer keeps the index the timer set and puts that strategy's URL in the web view.
C2_AsStated ==
  /\ \A i \in 0..(MaxStrategies - 1) :
       FailureReportedAt(i) ~>
         (phase # "mounted" \/ (currentStrategyIndex = i + 1 /\ WebViewUri = i + 1))
  /\ [][(lastHandler = "retryTimer" /\ lastHandler' = "indexEffect" /\ phase' = "mounted") =>
          /\ currentStrategyIndex' = currentStrategyIndex
          /\ WebViewUri' = currentStrategyIndex]_vars
  /\ [][AwaitingRetry => error' = NoError /\ onErrorCalls' = onErrorCalls]_vars

\* C2 amended: as C2, but the URL of strategy i + 1 is loaded only if that
\* strategy yields one (a strategy that yields none is skipped in its turn).
C2_AdvancesToNextStrategy ==
  /\ \A i \in 0..(MaxStrategies - 1) :
       FailureReportedAt(i) ~>
         \/ phase # "mounted"
         \/ /\ currentStrategyIndex = i + 1
            /\ i + 1 < NumStrategies
            /\ (getEmbedUrl(i + 1) # Null => WebViewUri = i + 1)
  /\ [][AwaitingRetry => error' = NoError /\ onErrorCalls' = onErrorCalls]_vars

C2_Witness ==
  /\ lastHandler = "indexEffect"
  /\ autoRetry
  /\ currentStrategyIndex = 1
  /\ WebViewUri = 1
  /\ failedLoads = {0}
  /\ onErrorCalls = <<>>
  /\ error = NoError

FinalMessages(h) ==
  IF h = "error"
  THEN {LoadFailedMsg(d) : d \in Descriptions}
  ELSE {HttpErrorMsg(c) : c \in {c \in HttpStatuses : c >= 400}}

\* C3: a failure report outside the retry branch (last strategy, or autoRetry off)
\* sets error to the failure message, clears isLoading, passes that same message
\* to onError, and sets no timer (none is pending afterwards).
C3_FinalFailure ==
  [][(IsFailureReport(lastHandler') /\ ~RetryBranch) =>
       /\ error' \in FinalMessages(lastHandler')
       /\ isLoading' = FALSE
       /\ onErrorCalls' = Append(onErrorCalls, error')
       /\ timers' = timers
       /\ timers' = {}]_vars

C3_Witness ==
  /\ lastHandler = "httpError"
  /\ autoRetry
  /\ currentStrategyIndex = NumStrategies - 1
  /\ currentStrategyIndex > 0
  /\ error = HttpErrorMsg(404)
  /\ onErrorCalls = <<HttpErrorMsg(404)>>
  /\ ~isLoading

\* C4: retryCount never exceeds maxRetries; it changes only by a manual retry,
\* which happens only while retryCount < maxRetries.
C4_ManualRetriesBounded ==
  /\ [](retryCount <= maxRetries)
  /\ [][retryCount' # retryCount =>
          /\ lastHandler' = "manualRetry"
          /\ retryCount < maxRetries
          /\ retryCount' = retryCount + 1]_vars

C4_Witness ==
  /\ retryCount = maxRetries
  /\ maxRetries = MaxManualRetries
  /\ hasConfig
  /\ error # NoError
  /\ phase = "mounted"
  /\ ~RetryOffered

\* C5: a manual retry leaves error null and currentStrategyIndex 0, and the web
\* view then loads the URL of strategy 0 (when strategy 0 yields one).
C5_ManualRetryRestartsAtFirst ==
  [][(lastHandler' = "manualRetry" /\ getEmbedUrl(0) # Null) =>
       /\ error' = NoError
       /\ currentStrategyIndex' = 0
       /\ WebViewUri' = getEmbedUrl(0)]_vars

\* C10 as stated: at most one retry timer is pending, and after a failure report
\* on the retry branch currentStrategyIndex ends exactly one higher and never
\* past the last strategy, for as long as the component is mounted.
C10_AsStated ==
  /\ [](Cardinality(timers) <= 1)
  /\ []((phase = "mounted" /\ indexAtFailure # Null) =>
          /\ currentStrategyIndex <= indexAtFailure + 1
          /\ currentStrategyIndex <= NumStrategies - 1)

\* C10 amended: at most one retry timer is pending at any time, and each firing
\* of it advances currentStrategyIndex by exactly one, to an index not past the
\* last strategy (the index moves further only by skipping strategies that yield
\* no embed URL).
C10_SingleRetryTimer ==
  /\ [](Cardinality(timers) <= 1)
  /\ [][lastHandler' = "retryTimer" =>
          /\ currentStrategyIndex' = currentStrategyIndex + 1
          /\ currentStrategyIndex' <= NumStrategies - 1]_vars

\* Two failure reports for the load of strategy 0 (the second handle is in use),
\* then one firing.
C10_Witness ==
  /\ lastHandler = "retryTimer"
  /\ retryTimeoutRef = 2
  /\ retryCount = 0
  /\ currentStrategyIndex = 1
  /\ timers = {}

\* C11: with no config for the URL the mount effect sets error to 'Unsupported
\* social media platform' and passes it to onError, once; the web view is never
\* rendered, no strategy is started (no embed URL, index 0, no timer) and the
\* retry button is never offered.
C11_UnsupportedPlatform ==
  ~hasConfig =>
    /\ ~WebViewShown
    /\ ~RetryOffered
    /\ embedUrl = Null
    /\ currentStrategyIndex = 0
    /\ timers = {}
    /\ IF pendingEffect = "mount"
       THEN error = NoError /\ onErrorCalls = <<>>
       ELSE error = UnsupportedMsg /\ onErrorCalls = <<UnsupportedMsg>>

C11_Witness ==
  /\ ~hasConfig
  /\ lastHandler = "unmount"
  /\ error = UnsupportedMsg
  /\ onErrorCalls = <<UnsupportedMsg>>
  /\ embedUrl = Null

\* C18: whenever there is a config and an embed URL is set (the render then reads
\* embedStrategies[currentStrategyIndex]), the index is within the list.
C18_StrategyIndexValid ==
  (hasConfig /\ embedUrl # Null) =>
    (0 <= currentStrategyIndex /\ currentStrategyIndex < NumStrategies)

\* C19: once the queued effects have run, the URL in the web view is the one
\* produced by the strategy at currentStrategyIndex.
C19_UrlOfCurrentStrategy ==
  (Idle /\ WebViewShown) => embedUrl = getEmbedUrl(currentStrategyIndex)

\* --------------------------------------------- UniversalVideoPlayer: claims

\* C6: retryCount never exceeds maxRetries, whatever the order of web-view
\* errors, HTTP errors, load timeouts and delayed retry callbacks.
C6_RetryCountBounded == uvRetryCount <= uvMaxRetries

\* C7: at most maxRetries automatic retries are performed for the URL.
C7_AutoRetriesBounded == autoRetries <= uvMaxRetries

\* C8: when canPlay is false the eligibility effect sets playbackError to the
\* reason (or to 'Cannot play this video' when there is none) and passes it to
\* onError, and from then on the error view is what is rendered.
C8_IneligibleShowsError ==
  /\ [][(uvPendingEffect = "mount" /\ uvPendingEffect' = "none" /\ ~canPlay) =>
          /\ (reason # "" => playbackError' = reason)
          /\ (reason = "" => playbackError' = "Cannot play this video")
          /\ uvOnError' = playbackError']_vars
  /\ []((~canPlay /\ uvPendingEffect = "none") =>
          (playbackError # NoError /\ Surface = "error"))

C8_Witness ==
  /\ ~canPlay
  /\ reason = ""
  /\ sourceType = "youtube"
  /\ uvPendingEffect = "none"
  /\ uvLastHandler = "controlsTimer"
  /\ playbackError = "Cannot play this video"
  /\ uvOnError = "Cannot play this video"
  /\ Surface = "error"

\* The player flags that are set for the source
SurfaceFlags ==
  {f \in {"social", "webview", "native"} :
     \/ f = "social" /\ useSocialMediaPlayer
     \/ f = "webview" /\ shouldUseWebView
     \/ f = "native" /\ shouldUseNativePlayerRender}

\* C9: with no playback error the surface is the SocialMediaPlayer for twitter,
\* instagram or tiktok with a social-media config; else the web view when the
\* source requires one or its type is a listed web type; else the native player
\* for direct, stream, hls or dash; else the error view.  At most one of the
\* three player flags is set, and the error view is rendered exactly when none is.
C9_OneSurfaceByPriority ==
  playbackError = NoError =>
    /\ Surface =
         IF sourceType \in {"twitter", "instagram", "tiktok"} /\ hasSocialConfig
         THEN "social"
         ELSE IF requiresWebView \/ sourceType \in WebViewTypes THEN "webview"
         ELSE IF sourceType \in {"direct", "stream", "hls", "dash"} THEN "native"
         ELSE "error"
    /\ Cardinality(SurfaceFlags) <= 1
    /\ (SurfaceFlags = {} <=> Surface = "error")
    /\ (SurfaceFlags # {} => SurfaceFlags = {Surface})

C9_Witness ==
  /\ playbackError = NoError
  /\ uvPendingEffect = "none"
  /\ sourceType = "tiktok"
  /\ ~hasSocialConfig
  /\ ~requiresWebView
  /\ Surface = "webview"
  /\ uvLastHandler = "loadEnd"

\* C12: a pending load timeout is cancelled only by the timeout handler itself,
\* by a load-end or by an error event of the web view; no other event (such as the
\* controls hiding after 3 s) cancels it.
C12_LoadTimeoutNotCancelled ==
  [][(loadTimer # Null /\ loadTimer' = Null) =>
       uvLastHandler' \in {"loadTimeout", "loadEnd", "error",
                            "http4xx", "http5xx", "httpStatus"}]_vars

\* C15: an HTTP error event with a status in 400..499 is never retried: it sets
\* playbackError and passes it to onError; a status >= 500 schedules a retry when
\* retryCount < maxRetries and otherwise sets playbackError and passes it to
\* onError; a status below 400 changes neither playbackError nor retryCount.
C15_HttpErrorByStatusClass ==
  [][/\ uvLastHandler' = "http4xx" =>
          /\ playbackError' \in {PlayerHttpErrorMsg(400), PlayerHttpErrorMsg(499)}
          /\ uvOnError' = playbackError'
          /\ pendingRetries' = pendingRetries
          /\ uvRetryCount' = uvRetryCount
     /\ uvLastHandler' = "http5xx" =>
          IF uvRetryCount < uvMaxRetries
          THEN /\ pendingRetries' = pendingRetries + 1
               /\ UNCHANGED <<playbackError, uvOnError>>
          ELSE /\ playbackError' = PlayerHttpErrorMsg(500)
               /\ uvOnError' = playbackError'
               /\ pendingRetries' = pendingRetries
     /\ uvLastHandler' = "httpStatus" =>
          UNCHANGED <<playbackError, uvRetryCount, uvOnError, pendingRetries>>]_vars

C15_Witness ==
  /\ uvLastHandler = "http4xx"
  /\ uvRetryCount < uvMaxRetries
  /\ pendingRetries = 0
  /\ playbackError = PlayerHttpErrorMsg(499)
  /\ uvOnError = PlayerHttpErrorMsg(499)

\* C17: when the native player reports status 'error' and the source requires a
\* web view or its type is youtube or adult, playbackError is left unchanged and
\* onError is not called; otherwise playbackError becomes 'Playback error: '
\* followed by the extracted message and onError is called with the same string.
C17_NativeError ==
  [][uvLastHandler' = "nativeError" =>
       IF requiresWebView \/ sourceType \in {"youtube", "adult"}
       THEN UNCHANGED <<playbackError, uvOnError>>
       ELSE /\ playbackError' \in {"Playback error: Unknown playback error",
                                    "Playback error: Unknown error",
                                    "Playback error: decoder failed",
                                    "Playback error: bad source",
                                    "Playback error: {}"}
            /\ uvOnError' = playbackError']_vars

C17_Witness ==
  /\ uvLastHandler = "nativeError"
  /\ sourceType = "vimeo"
  /\ ~requiresWebView
  /\ playbackError = "Playback error: decoder failed"
  /\ uvOnError = "Playback error: decoder failed"

\* C13: for a YouTube source with a video id the web view is given the standard
\* embed URL at retryCount 0, the watch page at retryCount 1 and the no-cookie
\* embed at every retryCount >= 2; for every other source the URL does not depend
\* on retryCount: the web view is given one URL only, whatever retries happen.
C13_YouTubeUrlByRetryCount ==
  /\ Surface = "webview" => WebViewSourceUri \in triedUris
  /\ IF sourceType = "youtube" /\ hasVideoId
     THEN WebViewSourceUri =
            (IF uvRetryCount = 0 THEN "https://www.youtube.com/embed/id?autoplay="
             ELSE IF uvRetryCount = 1 THEN "https://www.youtube.com/watch?v=id&autoplay="
             ELSE "https://www.youtube-nocookie.com/embed/id?autoplay=")
            \o (IF autoPlay THEN "1" ELSE "0")
     ELSE Cardinality(triedUris) <= 1

C13_Witness ==
  /\ sourceType = "youtube"
  /\ hasVideoId
  /\ autoPlay
  /\ WebViewMounted
  /\ uvRetryCount = 2
  /\ uvLastHandler = "delayedRetry"
  /\ triedUris = {"https://www.youtube.com/embed/id?autoplay=1",
                  "https://www.youtube.com/watch?v=id&autoplay=1",
                  "https://www.youtube-nocookie.com/embed/id?autoplay=1"}

\* C14: when the final YouTube load failure is shown and maxRetries >= 1, the
\* number of distinct YouTube URLs the web view has been given equals maxRetries.
C14_TriedMaxRetriesMethods ==
  (/\ sourceType = "youtube"
   /\ hasVideoId
   /\ uvMaxRetries >= 1
   /\ uvLastHandler = "error"
   /\ playbackError = YouTubeFailedMsg) =>
    Cardinality(triedUris) = uvMaxRetries

\* C16: for every source rendered through the web view or the SocialMediaPlayer
\* the native player is given the placeholder URL and is not auto-played.
C16_NativePlayerUnusedOffSurface ==
  (UvIdle /\ Surface \in {"webview", "social"}) =>
    (safeUrl = PlaceholderUrl /\ ~NativeAutoPlays)
====
